---- MODULE Spec2Model ----
(***************************************************************************)
(* Model of server/src/Component/Definition.ts: the abstract Component     *)
(* lifecycle base class, the process-wide registry componentObjByUuid and  *)
(* the world.onTick driver that walks the registry once per frame.         *)
(*                                                                         *)
(* The registry is a JavaScript Map.  A Map keeps its entries in insertion *)
(* order; Map.prototype.forEach walks the LIVE entry list by index:        *)
(* entries deleted before they are reached are skipped, entries appended   *)
(* during the walk are reached, and after clear() every entry set again is *)
(* a new entry behind the walk's position.  The model keeps the list of    *)
(* live entries (componentObjByUuid) and, while a walk is in progress, the *)
(* number of live entries that lie before the walk's position (iter).      *)
(*                                                                         *)
(* Lifecycle hooks are abstract in the source.  onStart, onEnable,         *)
(* onDisable, onRestore and onDestroy are modelled as observers: each call *)
(* is recorded in events with what the hook can see.  An onUpdate hook     *)
(* called by the tick driver may in addition perform core operations       *)
(* (construct, write enable, write weight, destroy) before it returns.     *)
(* Each component's uuid is taken to be unique (generateUuidV4 draws 122   *)
(* random bits); a component is named by its construction index.           *)
(***************************************************************************)
EXTENDS Integers, Sequences, FiniteSets

\* ----------------------------------------------------------------- bounds
MaxComp == 2        \* components constructed in one run
MaxWeight == 1      \* weights range over -1 .. MaxWeight
MaxDelta == 2       \* elapsedTimeMS / deltaTime range over 1 .. MaxDelta
MaxTime == 2        \* cap on _timeCount
MaxVisits == 3      \* cap on update calls made by one tick
MaxHookOps == 1     \* cap on core operations one onUpdate hook performs
MaxSort == 3        \* components constructed in one run of SortSpec

Ids == 1 .. MaxComp
SortIds == 1 .. MaxSort
AllIds == Ids \cup SortIds
Weights == (0 - 1) .. MaxWeight
Deltas == 1 .. MaxDelta
Times == 0 .. MaxTime
HookNames == {"onStart", "onUpdate", "onEnable", "onDisable", "onRestore", "onDestroy"}
\* The subsets of hooks a concrete subclass implements, as drawn at construction.
HookSets == { {"onUpdate"}, HookNames \ {"onUpdate"}, HookNames }

VARIABLES
    constructed,        \* set of components whose constructor has run
    _enable,            \* Component._enable
    _weight,            \* Component._weight
    _timeCount,         \* Component._timeCount
    hooks,              \* the lifecycle hooks each component's subclass defines
    componentObjByUuid, \* the registry: live Map entries in Map order
    pc,                 \* "idle" | "tick" (inside forEach) | "hook" (inside an onUpdate hook)
    iter,               \* forEach position: live entries before the walk's position
    cur,                \* component whose onUpdate hook is running (0: none)
    elapsedTimeMS,      \* payload of the tick in progress
    hookOps,            \* operations performed so far by the running hook
    startOrder,         \* registry order when the tick in progress started
    visited,            \* components whose update the tick in progress has called, in order
    lastOp,             \* the last operation performed: name, target, arguments, result
    events,             \* hook calls made by the last operation, in order
    destroyed,          \* per component: destroy() has returned true
    selfDestroyed       \* per component: it called destroy() on itself in its own onUpdate
                        \* hook: "no" | "thisTick" (in the tick in progress) | "past"

vars == << constructed, _enable, _weight, _timeCount, hooks, componentObjByUuid,
           pc, iter, cur, elapsedTimeMS, hookOps, startOrder, visited, lastOp,
           events, destroyed, selfDestroyed >>

\* ---------------------------------------------------------------- helpers
Range(s) == { s[i] : i \in 1 .. Len(s) }

IndexOf(s, x) == CHOOSE i \in 1 .. Len(s) : s[i] = x

RemoveAt(s, p) == [ i \in 1 .. (Len(s) - 1) |-> IF i < p THEN s[i] ELSE s[i + 1] ]

\* A hook call, with what the hook observes when it runs: the component's
\* _enable, whether it is in the registry, and how many re-sorts the running
\* operation has already made.
Event(h, c, en, reg) ==
    [ hook |-> h, id |-> c, enableSeen |-> en, memberSeen |-> (c \in Range(reg.m)),
      sortsSeen |-> 0 ]

\* The same hook calls, made after n re-sorts of the running operation.
AfterSorts(ev, n) == [ k \in 1 .. Len(ev) |-> [ ev[k] EXCEPT !.sortsSeen = n ] ]

\* `this.onX?.()`: the call happens only when the subclass defines the hook.
CallHook(hs, h, c, en, reg) == IF h \in hs THEN << Event(h, c, en, reg) >> ELSE << >>

Op(name, c, v, n, ret) ==
    [ op |-> name, id |-> c, v |-> v, n |-> n, ret |-> ret, sorts |-> 0 ]

\* ------------------------------------------------- registry (Map) operations
\* A registry value is [m |-> live entries in order, i |-> forEach position].

\* componentObjByUuid.delete(component.uuid)
removeComponentTick(reg, c) ==
    IF c \in Range(reg.m)
    THEN LET p == IndexOf(reg.m, c)
         IN  [ m |-> RemoveAt(reg.m, p), i |-> IF p <= reg.i THEN reg.i - 1 ELSE reg.i ]
    ELSE reg

\* componentObjByUuid.set(component.uuid, component)
addComponentTick(reg, c) ==
    IF c \in Range(reg.m) THEN reg ELSE [ m |-> Append(reg.m, c), i |-> reg.i ]

\* Variant of the insertion that puts an element before its equals, as an
\* unstable sort may.
RECURSIVE InsertDesc_unstable(_, _, _)
InsertDesc_unstable(s, c, w) ==
    IF s = << >> THEN << c >>
    ELSE IF w[Head(s)] > w[c] THEN << Head(s) >> \o InsertDesc_unstable(Tail(s), c, w)
    ELSE << c >> \o s

\* Array.prototype.sort with (a, b) => b.weight - a.weight: stable, descending.
RECURSIVE InsertDesc(_, _, _)
InsertDesc(s, c, w) ==
    IF s = << >> THEN << c >>
    ELSE IF w[Head(s)] >= w[c] THEN << Head(s) >> \o InsertDesc(Tail(s), c, w)
    ELSE << c >> \o s

RECURSIVE SortDesc(_, _)
SortDesc(s, w) ==
    IF s = << >> THEN << >>
    ELSE InsertDesc(SortDesc(SubSeq(s, 1, Len(s) - 1), w), s[Len(s)], w)

\* Variant with the comparator (a, b) => a.weight - b.weight.
sortComponentsByWeight_ascending(reg, w) ==
    LET d == SortDesc(reg.m, w)
    IN  [ m |-> [ k \in 1 .. Len(d) |-> d[Len(d) + 1 - k] ], i |-> 0 ]

\* Variant that calls clear() after the loop that sets the entries.
sortComponentsByWeight_clearLast(reg, w) == [ m |-> << >>, i |-> 0 ]

\* Array.from(values), sort, clear(), then set() each: every entry is new,
\* so all of them lie behind the position of a walk in progress.
sortComponentsByWeight(reg, w) == [ m |-> SortDesc(reg.m, w), i |-> 0 ]

\* ------------------------------------------------------- Component methods
\* Each method is an operator from the fields it reads to the fields it
\* writes; w is the whole weight map (the sort reads every member's weight).

\* Variant of onStartIfNotStarted that leaves out addComponentTick(this).
onStartIfNotStarted_noAdd(c, en, w, hs, reg) ==
    IF ~en
    THEN LET doSort == "onUpdate" \in hs /\ w[c] # 0
             r == IF doSort THEN sortComponentsByWeight(reg, w) ELSE reg
             n == IF doSort THEN 1 ELSE 0
         IN  [ en |-> TRUE, reg |-> r, sorts |-> n,
               ev |-> AfterSorts(CallHook(hs, "onEnable", c, TRUE, r), n) ]
    ELSE [ en |-> en, reg |-> reg, sorts |-> 0, ev |-> << >> ]

\* private onStartIfNotStarted(), lines 72-83
onStartIfNotStarted(c, en, w, hs, reg) ==
    IF ~en
    THEN LET added == IF "onUpdate" \in hs THEN addComponentTick(reg, c) ELSE reg
             doSort == "onUpdate" \in hs /\ w[c] # 0
             r == IF doSort THEN sortComponentsByWeight(added, w) ELSE added
             n == IF doSort THEN 1 ELSE 0
         IN  [ en |-> TRUE, reg |-> r, sorts |-> n,
               ev |-> AfterSorts(CallHook(hs, "onEnable", c, TRUE, r), n) ]
    ELSE [ en |-> en, reg |-> reg, sorts |-> 0, ev |-> << >> ]

\* Variant of the constructor that calls onStartIfNotStarted() before onStart.
constructor_enableFirst(c, w, hs, reg) ==
    LET r == onStartIfNotStarted(c, FALSE, w, hs, reg)
    IN  [ r EXCEPT !.ev = r.ev \o AfterSorts(CallHook(hs, "onStart", c, r.en, r.reg), r.sorts) ]

\* constructor, lines 25-36: fields, uuid, onStart?.(), onStartIfNotStarted()
constructor(c, w, hs, reg) ==
    LET started == CallHook(hs, "onStart", c, FALSE, reg)
        r == onStartIfNotStarted(c, FALSE, w, hs, reg)
    IN  [ r EXCEPT !.ev = started \o r.ev ]

\* Variant of the enable setter without `if (this._enable === v) return`.
enableSetter_noGuard(c, v, en, w, hs, reg) ==
    IF v THEN onStartIfNotStarted(c, v, w, hs, reg)
    ELSE LET r == IF "onUpdate" \in hs THEN removeComponentTick(reg, c) ELSE reg
         IN  [ en |-> v, reg |-> r, sorts |-> 0,
               ev |-> CallHook(hs, "onDisable", c, v, r) ]

\* Variant of the enable setter that calls onStartIfNotStarted() before it
\* has written _enable, so that a re-enable registers the component again.
enableSetter_startFirst(c, v, en, w, hs, reg) ==
    IF en = v THEN [ en |-> en, reg |-> reg, sorts |-> 0, ev |-> << >> ]
    ELSE IF v THEN onStartIfNotStarted(c, en, w, hs, reg)
    ELSE LET r == IF "onUpdate" \in hs THEN removeComponentTick(reg, c) ELSE reg
         IN  [ en |-> v, reg |-> r, sorts |-> 0,
               ev |-> CallHook(hs, "onDisable", c, v, r) ]

\* set enable(v), lines 133-144
enableSetter(c, v, en, w, hs, reg) ==
    IF en = v THEN [ en |-> en, reg |-> reg, sorts |-> 0, ev |-> << >> ]
    ELSE IF v THEN onStartIfNotStarted(c, v, w, hs, reg)
    ELSE LET r == IF "onUpdate" \in hs THEN removeComponentTick(reg, c) ELSE reg
         IN  [ en |-> v, reg |-> r, sorts |-> 0,
               ev |-> CallHook(hs, "onDisable", c, v, r) ]

\* Variant of the weight setter that re-sorts only for a registry member.
weightSetter_membersOnly(c, x, w, hs, reg) ==
    IF w[c] = x THEN [ w |-> w, reg |-> reg, sorts |-> 0 ]
    ELSE LET wnew == [ w EXCEPT ![c] = x ]
         IN  IF "onUpdate" \in hs /\ c \in Range(reg.m)
             THEN [ w |-> wnew, reg |-> sortComponentsByWeight(reg, wnew), sorts |-> 1 ]
             ELSE [ w |-> wnew, reg |-> reg, sorts |-> 0 ]

\* set weight(w), lines 97-103; wnew is the weight map after the write
weightSetter(c, x, w, hs, reg) ==
    IF w[c] = x THEN [ w |-> w, reg |-> reg, sorts |-> 0 ]
    ELSE LET wnew == [ w EXCEPT ![c] = x ]
         IN  IF "onUpdate" \in hs
             THEN [ w |-> wnew, reg |-> sortComponentsByWeight(reg, wnew), sorts |-> 1 ]
             ELSE [ w |-> wnew, reg |-> reg, sorts |-> 0 ]

\* Variant of destroy without `if (!this._enable) return false`.
destroy_noGuard(c, en, hs, reg) ==
    LET disabled == CallHook(hs, "onDisable", c, FALSE, reg)
        r == IF "onUpdate" \in hs THEN removeComponentTick(reg, c) ELSE reg
    IN  [ ret |-> TRUE, en |-> FALSE, reg |-> r,
          ev |-> disabled \o CallHook(hs, "onDestroy", c, FALSE, r) ]

\* Variant of destroy that leaves out removeComponentTick(this).
destroy_keepsEntry(c, en, hs, reg) ==
    IF ~en THEN [ ret |-> FALSE, en |-> en, reg |-> reg, ev |-> << >> ]
    ELSE [ ret |-> TRUE, en |-> FALSE, reg |-> reg,
           ev |-> CallHook(hs, "onDisable", c, FALSE, reg)
                  \o CallHook(hs, "onDestroy", c, FALSE, reg) ]

\* destroy(), lines 150-159
destroy(c, en, hs, reg) ==
    IF ~en THEN [ ret |-> FALSE, en |-> en, reg |-> reg, ev |-> << >> ]
    ELSE LET disabled == CallHook(hs, "onDisable", c, FALSE, reg)
             r == IF "onUpdate" \in hs THEN removeComponentTick(reg, c) ELSE reg
         IN  [ ret |-> TRUE, en |-> FALSE, reg |-> r,
               ev |-> disabled \o CallHook(hs, "onDestroy", c, FALSE, r) ]

\* restore(), lines 164-166
restore(c, en, hs, reg) == CallHook(hs, "onRestore", c, en, reg)

\* The onUpdate(deltaTime) call: the hook call with its argument and the
\* _timeCount the hook sees.
UpdateHook(c, d, t, en, hs, reg) ==
    IF "onUpdate" \in hs
    THEN << [ hook |-> "onUpdate", id |-> c, enableSeen |-> en,
              memberSeen |-> (c \in Range(reg.m)), sortsSeen |-> 0,
              deltaTime |-> d, timeCountSeen |-> t ] >>
    ELSE << >>

\* Variant of update that adds a fixed frame step instead of deltaTime.
update_fixedStep(c, d, t, en, hs, reg) ==
    [ t |-> t + 1, ev |-> UpdateHook(c, d, t + 1, en, hs, reg) ]

\* update(deltaTime), lines 172-175
update(c, d, t, en, hs, reg) ==
    [ t |-> t + d, ev |-> UpdateHook(c, d, t + d, en, hs, reg) ]

\* ------------------------------------------------------------------ state
Reg == [ m |-> componentObjByUuid, i |-> iter ]

Bool(b) == IF b THEN "true" ELSE "false"

Init ==
    /\ constructed = {}
    /\ _enable = [ c \in AllIds |-> FALSE ]
    /\ _weight = [ c \in AllIds |-> 0 ]
    /\ _timeCount = [ c \in AllIds |-> 0 ]
    /\ hooks = [ c \in AllIds |-> {} ]
    /\ componentObjByUuid = << >>
    /\ pc = "idle"
    /\ iter = 0
    /\ cur = 0
    /\ elapsedTimeMS = 0
    /\ hookOps = 0
    /\ startOrder = << >>
    /\ visited = << >>
    /\ lastOp = Op("init", 0, FALSE, 0, "void")
    /\ events = << >>
    /\ destroyed = [ c \in AllIds |-> FALSE ]
    /\ selfDestroyed = [ c \in AllIds |-> "no" ]

\* A core operation is called by external code between ticks, or by the
\* onUpdate hook that is running.
Caller ==
    /\ \/ pc = "idle"
       \/ pc = "hook" /\ hookOps < MaxHookOps
    /\ hookOps' = IF pc = "hook" THEN hookOps + 1 ELSE hookOps
    /\ UNCHANGED << pc, cur, elapsedTimeMS, startOrder, visited >>

\* External code only (not drawn as hook bodies).
TopLevel ==
    /\ pc = "idle"
    /\ UNCHANGED << pc, cur, elapsedTimeMS, startOrder, visited, hookOps >>

SetReg(r) ==
    /\ componentObjByUuid' = r.m
    /\ iter' = IF pc = "idle" THEN 0 ELSE r.i

\* new Subclass({weight: x, timeCount: t}) with hooks hs, as long as fewer
\* than max components exist
ConstructUpTo(x, t, hs, max) ==
    LET c == Cardinality(constructed) + 1
    IN  /\ Caller
        /\ c <= max
        /\ LET w == [ _weight EXCEPT ![c] = x ]
               r == constructor(c, w, hs, Reg)
           IN  /\ constructed' = constructed \cup {c}
               /\ _weight' = w
               /\ _timeCount' = [ _timeCount EXCEPT ![c] = t ]
               /\ hooks' = [ hooks EXCEPT ![c] = hs ]
               /\ _enable' = [ _enable EXCEPT ![c] = r.en ]
               /\ SetReg(r.reg)
               /\ events' = r.ev
               /\ lastOp' = [ Op("construct", c, FALSE, x, "void") EXCEPT !.sorts = r.sorts ]
        /\ UNCHANGED << destroyed, selfDestroyed >>

Construct(x, t, hs) == ConstructUpTo(x, t, hs, MaxComp)

\* c.enable = v
SetEnable(c, v) ==
    /\ Caller
    /\ c \in constructed
    /\ LET r == enableSetter(c, v, _enable[c], _weight, hooks[c], Reg)
       IN  /\ _enable' = [ _enable EXCEPT ![c] = r.en ]
           /\ SetReg(r.reg)
           /\ events' = r.ev
           /\ lastOp' = [ Op("setEnable", c, v, 0, "void") EXCEPT !.sorts = r.sorts ]
    /\ UNCHANGED << constructed, _weight, _timeCount, hooks,
                    destroyed, selfDestroyed >>

\* c.weight = x
SetWeight(c, x) ==
    /\ Caller
    /\ c \in constructed
    /\ LET r == weightSetter(c, x, _weight, hooks[c], Reg)
       IN  /\ _weight' = r.w
           /\ SetReg(r.reg)
           /\ lastOp' = [ Op("setWeight", c, FALSE, x, "void") EXCEPT !.sorts = r.sorts ]
    /\ events' = << >>
    /\ UNCHANGED << constructed, _enable, _timeCount, hooks,
                    destroyed, selfDestroyed >>

\* c.destroy()
Destroy(c) ==
    /\ Caller
    /\ c \in constructed
    /\ LET r == destroy(c, _enable[c], hooks[c], Reg)
       IN  /\ _enable' = [ _enable EXCEPT ![c] = r.en ]
           /\ SetReg(r.reg)
           /\ events' = r.ev
           /\ lastOp' = Op("destroy", c, FALSE, 0, Bool(r.ret))
           /\ destroyed' = [ destroyed EXCEPT ![c] = @ \/ r.ret ]
           /\ selfDestroyed' =
                 IF pc = "hook" /\ cur = c
                 THEN [ selfDestroyed EXCEPT ![c] = "thisTick" ]
                 ELSE selfDestroyed
    /\ UNCHANGED << constructed, _weight, _timeCount, hooks >>

\* c.timeCount = t
SetTimeCount(c, t) ==
    /\ TopLevel
    /\ c \in constructed
    /\ _timeCount' = [ _timeCount EXCEPT ![c] = t ]
    /\ events' = << >>
    /\ lastOp' = Op("setTimeCount", c, FALSE, t, "void")
    /\ UNCHANGED << constructed, _enable, _weight, hooks, componentObjByUuid, iter,
                    destroyed, selfDestroyed >>

\* Variant of restore() that also resets the accumulated time.
Restore_resetsTime(c) ==
    /\ TopLevel
    /\ c \in constructed
    /\ events' = restore(c, _enable[c], hooks[c], Reg)
    /\ lastOp' = Op("restore", c, FALSE, 0, "void")
    /\ _timeCount' = [ _timeCount EXCEPT ![c] = 0 ]
    /\ UNCHANGED << constructed, _enable, _weight, hooks,
                    componentObjByUuid, iter, destroyed, selfDestroyed >>

\* c.restore()
Restore(c) ==
    /\ TopLevel
    /\ c \in constructed
    /\ events' = restore(c, _enable[c], hooks[c], Reg)
    /\ lastOp' = Op("restore", c, FALSE, 0, "void")
    /\ UNCHANGED << constructed, _enable, _weight, _timeCount, hooks,
                    componentObjByUuid, iter, destroyed, selfDestroyed >>

\* c.update(d) called directly by external code
Update(c, d) ==
    /\ TopLevel
    /\ c \in constructed
    /\ _timeCount[c] + d <= MaxTime
    /\ LET r == update(c, d, _timeCount[c], _enable[c], hooks[c], Reg)
       IN  /\ _timeCount' = [ _timeCount EXCEPT ![c] = r.t ]
           /\ events' = r.ev
    /\ lastOp' = Op("update", c, FALSE, d, "void")
    /\ UNCHANGED << constructed, _enable, _weight, hooks, componentObjByUuid, iter,
                    destroyed, selfDestroyed >>

\* ------------------------------------------------ world.onTick, lines 181-185
\* The host fires the tick event: componentObjByUuid.forEach(...) begins.
TickStart(d) ==
    /\ pc = "idle"
    /\ pc' = "tick"
    /\ iter' = 0
    /\ elapsedTimeMS' = d
    /\ startOrder' = componentObjByUuid
    /\ visited' = << >>
    /\ events' = << >>
    /\ lastOp' = Op("tickStart", 0, FALSE, d, "void")
    /\ UNCHANGED << constructed, _enable, _weight, _timeCount, hooks, componentObjByUuid,
                    cur, hookOps, destroyed, selfDestroyed >>

\* forEach reaches the next live entry: component.update(elapsedTimeMS).
TickVisit ==
    /\ pc = "tick"
    /\ iter < Len(componentObjByUuid)
    /\ Len(visited) < MaxVisits
    /\ LET c == componentObjByUuid[iter + 1]
           r == update(c, elapsedTimeMS, _timeCount[c], _enable[c], hooks[c], Reg)
       IN  /\ r.t <= MaxTime
           /\ _timeCount' = [ _timeCount EXCEPT ![c] = r.t ]
           /\ events' = r.ev
           /\ iter' = iter + 1
           /\ visited' = Append(visited, c)
           /\ pc' = IF r.ev # << >> THEN "hook" ELSE "tick"
           /\ cur' = IF r.ev # << >> THEN c ELSE 0
           /\ lastOp' = Op("tickUpdate", c, FALSE, elapsedTimeMS, "void")
    /\ hookOps' = 0
    /\ UNCHANGED << constructed, _enable, _weight, hooks, componentObjByUuid,
                    elapsedTimeMS, startOrder, destroyed, selfDestroyed >>

\* The running onUpdate hook returns to forEach.
HookReturn ==
    /\ pc = "hook"
    /\ pc' = "tick"
    /\ cur' = 0
    /\ hookOps' = 0
    /\ events' = << >>
    /\ lastOp' = Op("hookReturn", cur, FALSE, 0, "void")
    /\ UNCHANGED << constructed, _enable, _weight, _timeCount, hooks, componentObjByUuid,
                    iter, elapsedTimeMS, startOrder, visited,
                    destroyed, selfDestroyed >>

\* forEach has no live entry left: the tick handler returns.
TickEnd ==
    /\ pc = "tick"
    /\ iter >= Len(componentObjByUuid)
    /\ pc' = "idle"
    /\ iter' = 0
    /\ elapsedTimeMS' = 0
    /\ startOrder' = << >>
    /\ visited' = << >>
    /\ events' = << >>
    /\ lastOp' = Op("tickEnd", 0, FALSE, 0, "void")
    /\ selfDestroyed' = [ c \in AllIds |-> IF selfDestroyed[c] = "thisTick" THEN "past"
                                        ELSE selfDestroyed[c] ]
    /\ UNCHANGED << constructed, _enable, _weight, _timeCount, hooks, componentObjByUuid,
                    cur, hookOps, destroyed >>

Next ==
    \/ \E x \in Weights, t \in Times, hs \in HookSets : Construct(x, t, hs)
    \/ \E c \in Ids, v \in BOOLEAN : SetEnable(c, v)
    \/ \E c \in Ids, x \in Weights : SetWeight(c, x)
    \/ \E c \in Ids : Destroy(c)
    \/ \E c \in Ids, t \in Times : SetTimeCount(c, t)
    \/ \E c \in Ids : Restore(c)
    \/ \E c \in Ids, d \in Deltas : Update(c, d)
    \/ \E d \in Deltas : TickStart(d)
    \/ TickVisit
    \/ HookReturn
    \/ TickEnd

Spec == Init /\ [][Next]_vars

\* The registry and its re-sort alone: external code constructs up to MaxSort
\* ticking components, writes weights and disables members; no tick runs.
SortNext ==
    \/ \E x \in Weights : ConstructUpTo(x, 0, {"onUpdate"}, MaxSort)
    \/ \E c \in SortIds, x \in Weights : SetWeight(c, x)
    \/ \E c \in SortIds : SetEnable(c, FALSE)

SortSpec == Init /\ [][SortNext]_vars

\* ------------------------------------------------------------ properties
Member(c) == c \in Range(componentObjByUuid)

HookCalls(ev, h, c) == { k \in 1 .. Len(ev) : ev[k].hook = h /\ ev[k].id = c }

IsOp(o, name, c) == o.op = name /\ o.id = c

\* C1: between operations, a component is a registry member if and only if
\* it is enabled and declares onUpdate.
C1_MembershipExact ==
    pc = "idle" =>
        \A c \in constructed : Member(c) <=> (_enable[c] /\ "onUpdate" \in hooks[c])

\* C2: writing enable = true on a disabled component registers it when it
\* declares onUpdate and then calls onEnable when present.
C2_ReEnableRegisters ==
    [][ \A c \in Ids :
          (IsOp(lastOp', "setEnable", c) /\ lastOp'.v /\ ~_enable[c]) =>
              /\ "onUpdate" \in hooks[c] => c \in Range(componentObjByUuid')
              /\ "onEnable" \in hooks[c] => HookCalls(events', "onEnable", c) # {} ]_vars

\* C3: construction alone leaves the component enabled and, when it declares
\* onUpdate, registered; onStart is called exactly once when present.
C3_ConstructEnables ==
    \A c \in Ids :
        IsOp(lastOp, "construct", c) =>
            /\ _enable[c]
            /\ "onUpdate" \in hooks[c] => Member(c)
            /\ Cardinality(HookCalls(events, "onStart", c)) =
                   IF "onStart" \in hooks[c] THEN 1 ELSE 0

C3_Witness ==
    \E c \in Ids :
        /\ IsOp(lastOp, "construct", c)
        /\ hooks[c] = HookNames
        /\ Member(c)
        /\ Len(componentObjByUuid) = 2

\* C4: a tick calls update on exactly the components registered when it
\* started, in the order they had then.
C4_TickVisitsSnapshot ==
    (pc = "tick" /\ iter >= Len(componentObjByUuid)) => visited = startOrder

\* C5: a component that destroys itself inside its own onUpdate hook has had
\* its update called in that tick, and no later tick calls its update.
C5_SelfDestroyedNotRevisited ==
    \A c \in Ids :
        /\ selfDestroyed[c] = "thisTick" => c \in Range(visited)
        /\ selfDestroyed[c] = "past" => c \notin Range(visited)

C5_Witness ==
    \E c \in Ids :
        /\ selfDestroyed[c] = "past"
        /\ pc = "tick"
        /\ visited # << >>
        /\ iter >= Len(componentObjByUuid)

\* C6: between operations the registry order is non-increasing by weight.
C6_RegistrySorted ==
    pc = "idle" =>
        \A i \in 1 .. (Len(componentObjByUuid) - 1) :
            _weight[componentObjByUuid[i]] >= _weight[componentObjByUuid[i + 1]]

\* C7: destroy() on a disabled component returns false, calls no hook and
\* changes nothing; on an enabled component it returns true and leaves the
\* component disabled and out of the registry.
C7_DestroyResult ==
    [][ \A c \in Ids :
          IsOp(lastOp', "destroy", c) =>
              IF ~_enable[c]
              THEN /\ lastOp'.ret = "false"
                   /\ events' = << >>
                   /\ UNCHANGED << _enable, _weight, _timeCount, componentObjByUuid, iter >>
              ELSE /\ lastOp'.ret = "true"
                   /\ ~_enable'[c]
                   /\ c \notin Range(componentObjByUuid') ]_vars

C7_Witness ==
    \E c \in Ids :
        /\ IsOp(lastOp, "destroy", c)
        /\ lastOp.ret = "false"
        /\ destroyed[c]
        /\ "onUpdate" \in hooks[c]

\* C8: once destroy() has returned true for a component, no later destroy()
\* on it returns true and onDestroy is not called again.
C8_DestroyTerminal ==
    [][ \A c \in Ids :
          destroyed[c] =>
              /\ ~(IsOp(lastOp', "destroy", c) /\ lastOp'.ret = "true")
              /\ HookCalls(events', "onDestroy", c) = {} ]_vars

\* C9: once destroy() has returned true for a component, it is never a
\* registry member again and the tick driver never calls its update again.
C9_DestroyedNeverScheduled ==
    \A c \in Ids :
        destroyed[c] => ~Member(c) /\ ~IsOp(lastOp, "tickUpdate", c)

C9_Witness ==
    \E c \in Ids :
        /\ destroyed[c]
        /\ _enable[c]
        /\ "onUpdate" \in hooks[c]
        /\ pc = "tick"
        /\ visited # << >>

\* C10: writing enable with the value it already has calls no hook and
\* changes neither the component nor the registry.
C10_SameValueEnableNoOp ==
    [][ \A c \in Ids :
          (IsOp(lastOp', "setEnable", c) /\ lastOp'.v = _enable[c]) =>
              /\ events' = << >>
              /\ UNCHANGED << _enable, _weight, _timeCount, componentObjByUuid, iter >> ]_vars

C10_Witness ==
    \E c \in Ids :
        /\ IsOp(lastOp, "setEnable", c)
        /\ lastOp.v
        /\ Member(c)
        /\ "onEnable" \in hooks[c]

\* C11: the tick driver calls update only on a component that is enabled at
\* that moment, so no tick adds time to a disabled component, also not to one
\* disabled or destroyed earlier in the same tick.
C11_TickUpdatesEnabledOnly ==
    /\ \A c \in Ids : IsOp(lastOp, "tickUpdate", c) => _enable[c]
    /\ \A c \in Range(componentObjByUuid) : _enable[c]

C11_Witness ==
    \E c \in Ids :
        /\ pc = "tick"
        /\ iter >= Len(componentObjByUuid)
        /\ c \in Range(startOrder)
        /\ ~_enable[c]
        /\ c \notin Range(visited)
        /\ visited # << >>

\* C12: a direct call update(delta) adds exactly delta to _timeCount and then
\* calls onUpdate(delta) when present, in every lifecycle state, and changes
\* neither _enable, _weight nor the registry.
C12_UpdateAddsDelta ==
    [][ \A c \in Ids :
          IsOp(lastOp', "update", c) =>
              /\ _timeCount' = [ _timeCount EXCEPT ![c] = @ + lastOp'.n ]
              /\ Len(events') = IF "onUpdate" \in hooks[c] THEN 1 ELSE 0
              /\ \A k \in 1 .. Len(events') :
                     /\ events'[k].hook = "onUpdate" /\ events'[k].id = c
                     /\ events'[k].deltaTime = lastOp'.n
                     /\ events'[k].timeCountSeen = _timeCount[c] + lastOp'.n
              /\ UNCHANGED << _enable, _weight, componentObjByUuid >> ]_vars

C12_Witness ==
    \E c \in Ids :
        /\ IsOp(lastOp, "update", c)
        /\ lastOp.n = 2
        /\ destroyed[c]
        /\ ~_enable[c]
        /\ events # << >>

\* C13: restore() calls onRestore when present and changes neither _weight,
\* _timeCount, _enable nor the registry, in every lifecycle state.
C13_RestoreOnlyNotifies ==
    [][ \A c \in Ids :
          IsOp(lastOp', "restore", c) =>
              /\ Len(events') = IF "onRestore" \in hooks[c] THEN 1 ELSE 0
              /\ \A k \in 1 .. Len(events') :
                     events'[k].hook = "onRestore" /\ events'[k].id = c
              /\ UNCHANGED << _enable, _weight, _timeCount, componentObjByUuid >> ]_vars

C13_Witness ==
    \E c \in Ids :
        /\ IsOp(lastOp, "restore", c)
        /\ events # << >>
        /\ _timeCount[c] > 0
        /\ _weight[c] # 0
        /\ Member(c)

Sorted(m, w) == \A i \in 1 .. (Len(m) - 1) : w[m[i]] >= w[m[i + 1]]

\* The registry on which the re-sort of the step works: the constructor has
\* appended the new component before it sorts.
PreSort ==
    IF lastOp'.op = "construct" THEN Append(componentObjByUuid, lastOp'.id)
    ELSE componentObjByUuid

\* C14: immediately after any re-sort, every adjacent pair of the registry
\* order is non-increasing by weight.
C14_SortedAfterResort ==
    lastOp.sorts > 0 => Sorted(componentObjByUuid, _weight)

C14_Witness ==
    /\ lastOp.sorts > 0
    /\ lastOp.op = "setWeight"
    /\ componentObjByUuid = << 3, 1, 2 >>
    /\ _weight[3] > _weight[1]
    /\ _weight[1] > _weight[2]

\* C15: a re-sort is stable: two members of equal weight keep the relative
\* order they had in the registry just before it.
C15_ResortStable ==
    [][ lastOp'.sorts > 0 =>
          \A i, j \in 1 .. Len(PreSort) :
              (i < j /\ _weight'[PreSort[i]] = _weight'[PreSort[j]]) =>
                  \E k, l \in 1 .. Len(componentObjByUuid') :
                      /\ k < l
                      /\ componentObjByUuid'[k] = PreSort[i]
                      /\ componentObjByUuid'[l] = PreSort[j] ]_vars

C15_Witness ==
    /\ lastOp.sorts > 0
    /\ componentObjByUuid = << 3, 2, 1 >>
    /\ _weight[3] > _weight[2]
    /\ _weight[2] = _weight[1]

\* C19: a re-sort only permutes the registry: the members are the same before
\* and after it, each once, and it changes no component's _enable, _weight or
\* _timeCount.
C19_ResortPermutes ==
    [][ lastOp'.sorts > 0 =>
          /\ Range(componentObjByUuid') = Range(PreSort)
          /\ Len(componentObjByUuid') = Len(PreSort)
          /\ \A c \in AllIds \ { lastOp'.id } :
                 /\ _enable'[c] = _enable[c]
                 /\ _weight'[c] = _weight[c]
                 /\ _timeCount'[c] = _timeCount[c]
          /\ lastOp'.op = "setWeight" =>
                 /\ _enable' = _enable
                 /\ _timeCount' = _timeCount
                 /\ _weight' = [ _weight EXCEPT ![lastOp'.id] = lastOp'.n ] ]_vars

C19_Witness ==
    /\ lastOp.sorts > 0
    /\ lastOp.op = "setWeight"
    /\ Len(componentObjByUuid) = 2
    /\ componentObjByUuid[1] > componentObjByUuid[2]
    /\ ~_enable[lastOp.id]

\* C16: during construction onStart runs while _enable is false and before
\* the registry insertion; onEnable runs after _enable is true and, for a
\* component with onUpdate, after the insertion and after the re-sort.
C16_ConstructionHookOrder ==
    \A c \in Ids :
        IsOp(lastOp, "construct", c) =>
            /\ "onStart" \in hooks[c] => HookCalls(events, "onStart", c) # {}
            /\ "onEnable" \in hooks[c] => HookCalls(events, "onEnable", c) # {}
            /\ \A k \in HookCalls(events, "onStart", c) :
                   /\ ~events[k].enableSeen
                   /\ ~events[k].memberSeen
                   /\ events[k].sortsSeen = 0
                   /\ \A l \in HookCalls(events, "onEnable", c) : k < l
            /\ \A l \in HookCalls(events, "onEnable", c) :
                   /\ events[l].enableSeen
                   /\ "onUpdate" \in hooks[c] => events[l].memberSeen
                   /\ events[l].sortsSeen = lastOp.sorts
                   /\ ("onUpdate" \in hooks[c] /\ _weight[c] # 0) => events[l].sortsSeen = 1

C16_Witness ==
    \E c \in Ids :
        /\ IsOp(lastOp, "construct", c)
        /\ hooks[c] = HookNames
        /\ _weight[c] # 0
        /\ Len(events) = 2
        /\ Len(componentObjByUuid) = 2

\* C17: destroy() on an enabled component writes _enable = false, then calls
\* onDisable while a component with onUpdate is still a registry member,
\* then removes it, then calls onDestroy, each hook once, and returns true.
C17_DestroyOrder ==
    \A c \in Ids :
        (IsOp(lastOp, "destroy", c) /\ lastOp.ret = "true") =>
            /\ ~_enable[c]
            /\ ~Member(c)
            /\ events =
                 (IF "onDisable" \in hooks[c]
                  THEN << [ hook |-> "onDisable", id |-> c, enableSeen |-> FALSE,
                            memberSeen |-> ("onUpdate" \in hooks[c]), sortsSeen |-> 0 ] >>
                  ELSE << >>)
                 \o
                 (IF "onDestroy" \in hooks[c]
                  THEN << [ hook |-> "onDestroy", id |-> c, enableSeen |-> FALSE,
                            memberSeen |-> FALSE, sortsSeen |-> 0 ] >>
                  ELSE << >>)

\* C18: writing weight with its current value re-sorts nothing and changes
\* nothing; writing another value to a component with onUpdate re-sorts the
\* whole registry, also when the component is disabled, and never makes a
\* disabled component a member; without onUpdate no re-sort happens.
C18_WeightWriteResort ==
    [][ \A c \in Ids :
          IsOp(lastOp', "setWeight", c) =>
              IF lastOp'.n = _weight[c]
              THEN /\ lastOp'.sorts = 0
                   /\ UNCHANGED << _enable, _weight, _timeCount, componentObjByUuid, iter >>
              ELSE /\ _weight' = [ _weight EXCEPT ![c] = lastOp'.n ]
                   /\ ~_enable[c] => c \notin Range(componentObjByUuid')
                   /\ IF "onUpdate" \in hooks[c]
                      THEN /\ lastOp'.sorts = 1
                           /\ Sorted(componentObjByUuid', _weight')
                           /\ Range(componentObjByUuid') = Range(componentObjByUuid)
                           /\ iter' = 0
                      ELSE /\ lastOp'.sorts = 0
                           /\ UNCHANGED << componentObjByUuid, iter >> ]_vars

C18_Witness ==
    \E c \in Ids :
        /\ IsOp(lastOp, "setWeight", c)
        /\ lastOp.sorts = 1
        /\ ~_enable[c]
        /\ "onUpdate" \in hooks[c]
        /\ componentObjByUuid # << >>

\* C20: a tick calls the update of each component at most once.
C20_TickVisitsOnce ==
    Cardinality(Range(visited)) = Len(visited)

====
